---- MODULE Spec2Model ----
(***************************************************************************)
(* W3J Studio: the layer/history engine of src/src/App.tsx.                *)
(*                                                                         *)
(* The React component keeps its state in useState cells.  An event        *)
(* handler runs atomically against the state of the latest render.  An     *)
(* async handler keeps, across every await, the values its closure         *)
(* captured when it was invoked (history, historyIndex, currentState,      *)
(* currentLayers, activeLayer, prompt); a call in flight is therefore a    *)
(* record in ops that carries those captured values.                       *)
(*                                                                         *)
(* historyIndex is 0-based as in the source (-1 = empty); TLA+ sequences   *)
(* are 1-based, so the current entry is history[historyIndex + 1].         *)
(* maskImage is TRUE when the cell is not null; editHotspot holds the     *)
(* stored point, or NoPoint for null.                                      *)
(*                                                                         *)
(* svc is the call of a function of the service layer (the second half of  *)
(* App.tsx) that is being evaluated, with its arguments, the environment   *)
(* and the reply of the model; aiSuggestions and isSuggestionsModalOpen    *)
(* are the cells of lines 85 and 82.  downloads is what the browser got    *)
(* from link.click() (line 526): the files handed off, oldest first.       *)
(***************************************************************************)
EXTENDS Integers, Sequences, FiniteSets, Bags, TLC

VARIABLES history, historyIndex, activeLayerId, prompt, activeTab, activeTool,
          maskImage, loadingMessage, error, editHotspot, revoked, nextUrl,
          lastId, ops, calls, svc, aiSuggestions, isSuggestionsModalOpen,
          downloads

\* the cells that the effects of lines 114-139 read or write
view == <<history, historyIndex, activeLayerId, prompt, activeTab, activeTool,
          maskImage>>
vars == <<history, historyIndex, activeLayerId, prompt, activeTab, activeTool,
          maskImage, loadingMessage, error, editHotspot, revoked, nextUrl,
          lastId, ops, calls, svc, aiSuggestions, isSuggestionsModalOpen,
          downloads>>

(* ------------------------------ bounds -------------------------------- *)
\* images uploaded and asynchronous calls (generate, remove, global edit,
\* crop, download) started in one run
MaxCalls == 3
\* asynchronous calls in flight at the same time
MaxOps == 2
\* layers of the entries that flattenImage is applied to in SpecFlatten
MaxLayers == 3

(* ------------------------------ values -------------------------------- *)
\* null of a string-valued cell (loadingMessage, error)
NoMsg == "null"
\* null of activeLayerId; layer ids are Date.now() readings, all positive
NoLayer == 0
\* currentImageUrl of an empty history; object URLs are numbered from 1
NoUrl == 0
\* editHotspot is <<>> for null and <<point>> for a stored point
NoPoint == <<>>
\* aiSuggestions is <<>> for null and <<list>> for a list of suggestions;
\* svc is <<>> when no call of the assistant functions is in flight
NoSuggestions == <<>>
NoCall == <<>>
\* the prompt texts tried: empty, whitespace only, and a real description
Prompts == {"", " ", "hat"}
\* App.tsx only ever asks whether activeTab is 'edit': "other" is any of the
\* six other tabs (switching among them changes nothing else)
Tabs == {"edit", "other"}
\* App.tsx only ever asks whether activeTool is 'point': "brush" is either of
\* the two mask tools, brush and erase
Tools == {"point", "brush"}

\* String.prototype.trim on the prompts above
Trim(s) == IF s = " " THEN "" ELSE s

(* --------------------------- derived state ---------------------------- *)
\* history[historyIndex] ?? null, as a sequence of zero or one entry
StateAt(h, i) == IF i + 1 \in DOMAIN h THEN <<h[i + 1]>> ELSE <<>>
\* currentState?.layers ?? []
LayersAt(h, i) == IF i + 1 \in DOMAIN h THEN h[i + 1].layers ELSE <<>>
\* layers.find(l => l.id === id) ?? null, as a sequence of zero or one layer
FindLayer(ls, id) ==
  IF \E k \in DOMAIN ls : ls[k].id = id
  THEN <<ls[CHOOSE k \in DOMAIN ls :
               ls[k].id = id /\ \A j \in DOMAIN ls : ls[j].id = id => k <= j]>>
  ELSE <<>>

currentState == StateAt(history, historyIndex)
currentLayers == LayersAt(history, historyIndex)
currentImageUrl ==
  IF currentState = <<>> THEN NoUrl ELSE currentState[1].imageUrl
activeLayer == FindLayer(currentLayers, activeLayerId)
isLoading == loadingMessage # NoMsg

canUndo_off == historyIndex >= 0
canUndo == historyIndex > 0
canRedo_off == historyIndex < Len(history)
canRedo == historyIndex < Len(history) - 1

(* --------------------------- what is on screen ------------------------ *)
\* renderContent shows the error panel instead of everything else, unless
\* the suggestions dialog is open (line 614)
ErrorPanel == error # NoMsg /\ ~isSuggestionsModalOpen
StartScreenShown == ~ErrorPanel /\ currentImageUrl = NoUrl
EditorShown == ~ErrorPanel /\ currentImageUrl # NoUrl
\* the loading overlay covers the image area only
CanvasReachable == EditorShown /\ ~isLoading
\* EditToolbar receives isLoading and disables its controls while busy
ToolbarEnabled == EditorShown /\ activeTab = "edit" /\ ~isLoading

\* a rejected promise is being delivered: its continuation is a microtask and
\* runs before any other event
Quiescent == \A op \in DOMAIN ops : op.stage # "throw"

(* ------------------------- effects after render ----------------------- *)
\* The three effects of lines 114-139, run after the render that follows a
\* handler: h, i, al, tab, tool, mask, pr are the values the handler set;
\* fresh says the active layer object was newly created by the handler.
EffActiveChanged(h, i, al, tab, fresh) ==
  \/ FindLayer(LayersAt(h, i), al) # activeLayer
  \/ fresh /\ FindLayer(LayersAt(h, i), al) # <<>>
  \/ tab # activeTab
EffPrompt(h, i, al, tab, pr, fresh) ==
  IF EffActiveChanged(h, i, al, tab, fresh) /\ tab = "edit"
  THEN IF FindLayer(LayersAt(h, i), al) # <<>>
       THEN FindLayer(LayersAt(h, i), al)[1].prompt ELSE ""
  ELSE pr
EffTool(h, i, al, tab, tool, fresh) ==
  IF /\ EffActiveChanged(h, i, al, tab, fresh)
     /\ tab = "edit" /\ FindLayer(LayersAt(h, i), al) = <<>>
  THEN "point" ELSE tool
EffMask_keep(h, i, al, tab, tool, mask, fresh) == mask
EffMask(h, i, al, tab, tool, mask, fresh) ==
  IF /\ EffTool(h, i, al, tab, tool, fresh) = "point"
     /\ ~(tool = "point" /\ activeTool = "point")
  THEN FALSE ELSE mask

Render(h, i, al, tab, tool, mask, pr, fresh) ==
  /\ history' = h
  /\ historyIndex' = i
  /\ activeLayerId' = al
  /\ activeTab' = tab
  /\ activeTool' = EffTool(h, i, al, tab, tool, fresh)
  /\ maskImage' = EffMask(h, i, al, tab, tool, mask, fresh)
  /\ prompt' = EffPrompt(h, i, al, tab, pr, fresh)

(* ------------------------------ history ------------------------------- *)
\* addImageToHistory: newHistory of lines 156-157 and the URLs that line 154
\* revokes, for the history h and pointer i that its closure holds
PushHistory(h, i, e) == Append(SubSeq(h, 1, i + 1), e)
PushRevoked(h, i) == {h[k].imageUrl : k \in (i + 2)..Len(h)}

Init ==
  /\ history = <<>>
  /\ historyIndex = -1
  /\ activeLayerId = NoLayer
  /\ prompt = ""
  /\ activeTab = "edit"
  /\ activeTool = "point"
  /\ maskImage = FALSE
  /\ loadingMessage = NoMsg
  /\ error = NoMsg
  /\ editHotspot = NoPoint
  /\ revoked = {}
  /\ nextUrl = 1
  /\ lastId = 0
  /\ ops = EmptyBag
  /\ calls = 0
  /\ svc = NoCall
  /\ aiSuggestions = NoSuggestions
  /\ isSuggestionsModalOpen = FALSE
  /\ downloads = <<>>

handleImageUpload_noIndex ==
  /\ Quiescent /\ StartScreenShown
  /\ calls < MaxCalls
  /\ Render(<<[imageUrl |-> nextUrl, layers |-> <<>>]>>, historyIndex,
            NoLayer, "edit", "point", maskImage, prompt, FALSE)
  /\ nextUrl' = nextUrl + 1
  /\ error' = NoMsg
  /\ editHotspot' = NoPoint
  /\ calls' = calls + 1
  /\ UNCHANGED <<loadingMessage, revoked, lastId, svc, aiSuggestions,
                 isSuggestionsModalOpen, ops, downloads>>

handleImageUpload ==
  /\ Quiescent /\ StartScreenShown
  /\ calls < MaxCalls
  /\ Render(<<[imageUrl |-> nextUrl, layers |-> <<>>]>>, 0, NoLayer,
            "edit", "point", maskImage, prompt, FALSE)
  /\ nextUrl' = nextUrl + 1
  /\ error' = NoMsg
  /\ editHotspot' = NoPoint
  /\ calls' = calls + 1
  /\ UNCHANGED <<loadingMessage, revoked, lastId, svc, aiSuggestions,
                 isSuggestionsModalOpen, ops, downloads>>

handleUndo_drop ==
  /\ Quiescent /\ EditorShown
  /\ canUndo
  /\ Render(SubSeq(history, 1, historyIndex), historyIndex - 1, NoLayer,
            activeTab, activeTool, FALSE, prompt, FALSE)
  /\ editHotspot' = NoPoint
  /\ UNCHANGED <<loadingMessage, error, revoked, nextUrl, lastId, svc,
                 aiSuggestions, isSuggestionsModalOpen, ops, calls,
                 downloads>>
handleUndo ==
  /\ Quiescent /\ EditorShown
  /\ canUndo
  /\ Render(history, historyIndex - 1, NoLayer, activeTab, activeTool, FALSE,
            prompt, FALSE)
  /\ editHotspot' = NoPoint
  /\ UNCHANGED <<loadingMessage, error, revoked, nextUrl, lastId, svc,
                 aiSuggestions, isSuggestionsModalOpen, ops, calls,
                 downloads>>

handleRedo ==
  /\ Quiescent /\ EditorShown
  /\ canRedo
  /\ Render(history, historyIndex + 1, NoLayer, activeTab, activeTool, FALSE,
            prompt, FALSE)
  /\ editHotspot' = NoPoint
  /\ UNCHANGED <<loadingMessage, error, revoked, nextUrl, lastId, svc,
                 aiSuggestions, isSuggestionsModalOpen, ops, calls,
                 downloads>>

handleReset_truncate ==
  /\ Quiescent /\ EditorShown
  /\ canUndo
  /\ Len(history) > 0
  /\ Render(SubSeq(history, 1, 1), 0, NoLayer, activeTab, activeTool, FALSE,
            prompt, FALSE)
  /\ error' = NoMsg
  /\ editHotspot' = NoPoint
  /\ UNCHANGED <<loadingMessage, revoked, nextUrl, lastId, svc, aiSuggestions,
                 isSuggestionsModalOpen, ops, calls, downloads>>
\* the Reset button is disabled unless canUndo
handleReset ==
  /\ Quiescent /\ EditorShown
  /\ canUndo
  /\ Len(history) > 0
  /\ Render(history, 0, NoLayer, activeTab, activeTool, FALSE, prompt, FALSE)
  /\ error' = NoMsg
  /\ editHotspot' = NoPoint
  /\ UNCHANGED <<loadingMessage, revoked, nextUrl, lastId, svc, aiSuggestions,
                 isSuggestionsModalOpen, ops, calls, downloads>>

handleUploadNew ==
  /\ Quiescent /\ EditorShown
  /\ Render(<<>>, -1, NoLayer, activeTab, activeTool, FALSE, "", FALSE)
  /\ error' = NoMsg
  /\ editHotspot' = NoPoint
  /\ UNCHANGED <<loadingMessage, revoked, nextUrl, lastId, svc, aiSuggestions,
                 isSuggestionsModalOpen, ops, calls, downloads>>

\* the "Try Again" button of the error panel
dismissError ==
  /\ Quiescent /\ ErrorPanel
  /\ error' = NoMsg
  /\ UNCHANGED <<history, historyIndex, activeLayerId, prompt, loadingMessage,
                 activeTab, activeTool, maskImage, editHotspot, revoked,
                 nextUrl, lastId, svc, aiSuggestions, isSuggestionsModalOpen,
                 ops, calls, downloads>>

setActiveTab(tab) ==
  /\ Quiescent /\ EditorShown
  /\ tab # activeTab
  /\ Render(history, historyIndex, activeLayerId, tab, activeTool, maskImage,
            prompt, FALSE)
  /\ UNCHANGED <<loadingMessage, error, editHotspot, revoked, nextUrl, lastId,
                 svc, aiSuggestions, isSuggestionsModalOpen, ops, calls,
                 downloads>>

setActiveTool(tool) ==
  /\ Quiescent /\ ToolbarEnabled
  /\ tool # activeTool
  /\ Render(history, historyIndex, activeLayerId, activeTab, tool, maskImage,
            prompt, FALSE)
  /\ UNCHANGED <<loadingMessage, error, editHotspot, revoked, nextUrl, lastId,
                 svc, aiSuggestions, isSuggestionsModalOpen, ops, calls,
                 downloads>>

setPrompt(p) ==
  /\ Quiescent /\ ToolbarEnabled
  /\ p # prompt
  /\ prompt' = p
  /\ UNCHANGED <<history, historyIndex, activeLayerId, loadingMessage, error,
                 activeTab, activeTool, maskImage, editHotspot, revoked,
                 nextUrl, lastId, svc, aiSuggestions, isSuggestionsModalOpen,
                 ops, calls, downloads>>

\* MagicBrushCanvas reports a painted mask through onMaskChange
onMaskChange ==
  /\ Quiescent /\ CanvasReachable
  /\ activeTab = "edit" /\ activeTool # "point"
  /\ ~maskImage
  /\ maskImage' = TRUE
  /\ UNCHANGED <<history, historyIndex, activeLayerId, prompt, loadingMessage,
                 error, activeTab, activeTool, editHotspot, revoked, nextUrl,
                 lastId, svc, aiSuggestions, isSuggestionsModalOpen, ops,
                 calls, downloads>>

(* ------------------------- pointer to native -------------------------- *)
\* A JavaScript number is an IEEE-754 binary64: 53 significant bits, results
\* rounded to nearest, ties to even. A positive number is kept here as its
\* integer part and the bits of its fraction, most significant first.
Precision == 53

RECURSIVE BitLength(_)
BitLength(n) == IF n = 0 THEN 0 ELSE 1 + BitLength(n \div 2)

\* the zeros before the first 1
LeadingZeros(bits) ==
  IF \A j \in DOMAIN bits : bits[j] = 0 THEN Len(bits)
  ELSE (CHOOSE j \in DOMAIN bits :
          bits[j] = 1 /\ \A i \in 1..(j - 1) : bits[i] = 0) - 1

\* bits + 1 in the last place
AddOne(bits) ==
  IF \A j \in DOMAIN bits : bits[j] = 1
  THEN [bits |-> [j \in DOMAIN bits |-> 0], carry |-> 1]
  ELSE LET last == CHOOSE j \in DOMAIN bits :
                     bits[j] = 0 /\ \A i \in (j + 1)..Len(bits) : bits[i] = 1
       IN [bits |-> [j \in DOMAIN bits |->
                       IF j < last THEN bits[j] ELSE IF j = last THEN 1 ELSE 0],
           carry |-> 0]

\* the nearest number of 53 significant bits, ties to even
RoundToNearest(x) ==
  LET keep == IF x.int > 0 THEN Precision - BitLength(x.int)
              ELSE LeadingZeros(x.frac) + Precision
  IN IF Len(x.frac) <= keep THEN x
     ELSE LET kept == SubSeq(x.frac, 1, keep)
              last == IF keep = 0 THEN x.int % 2 ELSE kept[keep]
              sticky == \E j \in (keep + 2)..Len(x.frac) : x.frac[j] = 1
              up == AddOne(kept)
          IN IF x.frac[keep + 1] = 1 /\ (sticky \/ last = 1)
             THEN [int |-> x.int + up.carry, frac |-> up.bits]
             ELSE [int |-> x.int, frac |-> kept]

\* 2^e modulo d
Square(n) == n * n
RECURSIVE PowerOfTwoMod(_, _)
PowerOfTwoMod(e, d) ==
  IF e = 0 THEN 1 % d
  ELSE (Square(PowerOfTwoMod(e \div 2, d)) * (IF e % 2 = 1 THEN 2 ELSE 1)) % d

\* what is left of r / d, for 0 <= r < d, after i bits of its fraction
RemainderAfter(r, d, i) == (r * PowerOfTwoMod(i, d)) % d

\* the first count bits of the fraction r / d
FractionBits(r, d, count) ==
  [i \in 1..count |-> (2 * RemainderAfter(r, d, i - 1)) \div d]

\* n / d for integers n >= 0 and d > 0: the quotient to one bit more than any
\* rounding keeps, a last bit standing for a remainder, then rounded
Divide(n, d) ==
  LET r == n % d
      count == BitLength(d) + Precision + 1
  IN RoundToNearest(
       [int |-> n \div d,
        frac |-> FractionBits(r, d, count) \o
                 (IF RemainderAfter(r, d, count) = 0 THEN <<>> ELSE <<1>>)])

\* k * x for an integer k >= 0: carry[i] is what the bits after the ith
\* carry into it
Multiply(k, x) ==
  LET n == Len(x.frac)
      carry[i \in 0..n] ==
        IF i = n THEN 0 ELSE (k * x.frac[i + 1] + carry[i + 1]) \div 2
  IN RoundToNearest([int |-> k * x.int + carry[0],
                     frac |-> [i \in 1..n |-> (k * x.frac[i] + carry[i]) % 2]])

\* Math.round: the nearest integer, a half goes up
MathRound(x) == x.int + (IF x.frac # <<>> /\ x.frac[1] = 1 THEN 1 ELSE 0)

\* a coordinate as the cell holds it: an integer, or NaN
Number(n) == [kind |-> "number", n |-> n]
NaN == [kind |-> "NaN", n |-> 0]

\* Math.round(offset * (natural / client)) of lines 555-559, for a natural
\* size above 0 and an offset within 0..client: a client size of 0 makes
\* the scale Infinity, and 0 * Infinity is NaN
ToNative(offset, natural, client) ==
  IF client = 0 THEN NaN
  ELSE Number(MathRound(Multiply(offset, Divide(natural, client))))

\* what a click supplies: the pointer's offset in the image element, and the
\* element's displayed and natural sizes as measured by the handler
ClientWidths == {0, 2, 14}
ClientHeights == {0, 2}
Clicks ==
  {c \in [offsetX : UNION {0..w : w \in ClientWidths},
          offsetY : UNION {0..h : h \in ClientHeights},
          clientWidth : ClientWidths, clientHeight : ClientHeights,
          naturalWidth : {61}, naturalHeight : {3, 61}] :
     c.offsetX <= c.clientWidth /\ c.offsetY <= c.clientHeight}
\* the middle of an image of 61 by 61 shown at 2 by 2
MiddleClick ==
  [offsetX |-> 1, offsetY |-> 1, clientWidth |-> 2, clientHeight |-> 2,
   naturalWidth |-> 61, naturalHeight |-> 61]
\* originalX and originalY of each click, as an explicit table (@@ builds
\* one) so that each click is computed once
Original ==
  [c \in Clicks |->
     [x |-> ToNative(c.offsetX, c.naturalWidth, c.clientWidth),
      y |-> ToNative(c.offsetY, c.naturalHeight, c.clientHeight)]] @@ <<>>

handleBaseImageClick(c) ==
  /\ Quiescent /\ CanvasReachable
  /\ activeTab = "edit" /\ activeTool = "point"
  /\ Render(history, historyIndex, NoLayer, activeTab, activeTool, FALSE,
            prompt, FALSE)
  /\ editHotspot' = <<Original[c]>>
  /\ UNCHANGED <<loadingMessage, error, revoked, nextUrl, lastId, svc,
                 aiSuggestions, isSuggestionsModalOpen, ops, calls,
                 downloads>>

\* from the layer image (under the overlay) or from the LayersPanel row
handleSelectLayer(layerId) ==
  /\ Quiescent /\ EditorShown
  /\ \E k \in DOMAIN currentLayers : currentLayers[k].id = layerId
  /\ activeTab = "edit"
  /\ Render(history, historyIndex, layerId, activeTab, "brush", FALSE, prompt,
            FALSE)
  /\ editHotspot' = NoPoint
  /\ UNCHANGED <<loadingMessage, error, revoked, nextUrl, lastId, svc,
                 aiSuggestions, isSuggestionsModalOpen, ops, calls,
                 downloads>>

WithoutLayer_first(ls, layerId) == Tail(ls)
\* currentLayers.filter(l => l.id !== layerId)
WithoutLayer(ls, layerId) == SelectSeq(ls, LAMBDA l : l.id # layerId)

\* the LayersPanel is shown whenever the current entry has layers; its
\* delete button takes no isLoading
handleDeleteLayer(layerId) ==
  /\ Quiescent /\ EditorShown
  /\ \E k \in DOMAIN currentLayers : currentLayers[k].id = layerId
  /\ Render(PushHistory(history, historyIndex,
                        [imageUrl |-> currentState[1].imageUrl,
                         layers |-> WithoutLayer(currentLayers, layerId)]),
            historyIndex + 1,
            IF activeLayerId = layerId THEN NoLayer ELSE activeLayerId,
            activeTab,
            IF activeLayerId = layerId THEN "point" ELSE activeTool,
            FALSE, prompt, FALSE)
  /\ revoked' = revoked \cup PushRevoked(history, historyIndex)
  /\ UNCHANGED <<loadingMessage, error, editHotspot, nextUrl, lastId, svc,
                 aiSuggestions, isSuggestionsModalOpen, ops, calls,
                 downloads>>

(* ------------------------- asynchronous calls ------------------------- *)
\* What the closure of an async handler holds across its awaits.  Of the
\* captured history and historyIndex the code only uses
\* history.slice(0, historyIndex + 1), whose last entry is currentState, and
\* the URLs of history.slice(historyIndex + 1): keep and drop.  A download
\* never pushes and keeps currentState only.  n is the position of the
\* call among the uploads and calls of a run; the data URL the service
\* answers it with is DataUrl(n).  drawn is the canvas of flattenImage: the
\* rasters drawn on it so far, bottom first, and <<>> when there is none.
DataUrl(n) == <<"data", n>>
NewOp(kind, stage, layerId, pr, upscale, addWatermark) ==
  [kind |-> kind, stage |-> stage,
   keep |-> IF kind = "download" THEN currentState
            ELSE SubSeq(history, 1, historyIndex + 1),
   drop |-> IF kind = "download" THEN {}
            ELSE PushRevoked(history, historyIndex),
   layerId |-> layerId, prompt |-> pr, upscale |-> upscale,
   addWatermark |-> addWatermark,
   drawn |-> <<>>,
   steps |-> IF kind # "generate" /\ stage # "base" THEN <<"flatten">>
             ELSE <<>>,
   t0 |-> lastId, n |-> calls + 1]
\* the captured currentState and currentLayers
CapState(op) == op.keep[Len(op.keep)]
CapLayers(op) == CapState(op).layers
\* ops is the bag of the calls in flight
Started(op) == ops (+) SetToBag({op})
Ended(op) == ops (-) SetToBag({op})
SetStage(op, stage, drawn, steps) ==
  Ended(op) (+) SetToBag({[op EXCEPT !.stage = stage, !.drawn = drawn,
                                     !.steps = steps]})
Mutating == {"generate", "remove", "global", "crop"}

\* the step of a handler that follows `await flattenImage()`
AfterFlatten(kind, upscale) ==
  CASE kind \in {"remove", "global"} -> "service"
    [] kind = "crop" -> "load"
    [] kind = "download" -> IF upscale THEN "upscale" ELSE "load"
FlattenStart_decode(kind, upscale) == "base"
\* flattenImage returns at once when the entry has no layers (line 310)
FlattenStart(kind, upscale) ==
  IF Len(currentLayers) = 0 THEN AfterFlatten(kind, upscale) ELSE "base"
\* setLoadingMessage('Upscaling image...') once flattenImage has returned
MessageAfterFlatten(kind, upscale, msg) ==
  IF kind = "download" /\ upscale THEN "Upscaling image..." ELSE msg

FailureMessage(kind) ==
  CASE kind = "generate" -> "Failed to generate the image."
    [] kind = "remove" -> "Failed to remove the object."
    [] kind = "global" -> "Failed to apply the edit."
    [] kind = "download" -> "Failed to process the download."
    [] kind = "crop" -> "Could not process the crop."

handleGenerate ==
  /\ Quiescent /\ ToolbarEnabled
  /\ LET hasPointSelection == activeTool = "point" /\ editHotspot # NoPoint
         hasBrushSelection == activeTool # "point" /\ maskImage
     IN IF currentState = <<>>
        THEN /\ error' = "No image loaded to edit."
             /\ UNCHANGED <<loadingMessage, ops, calls>>
        ELSE IF Trim(prompt) = ""
        THEN /\ error' = IF activeLayer # <<>>
                         THEN "Please describe your changes to the layer."
                         ELSE "Please enter a description for your edit."
             /\ UNCHANGED <<loadingMessage, ops, calls>>
        ELSE IF activeLayer = <<>> /\ ~hasPointSelection /\ ~hasBrushSelection
        THEN /\ error' = "Please select an area on the image to edit."
             /\ UNCHANGED <<loadingMessage, ops, calls>>
        ELSE /\ calls < MaxCalls /\ BagCardinality(ops) < MaxOps
             /\ calls' = calls + 1
             /\ loadingMessage' = IF activeLayer # <<>>
                                  THEN "Updating layer..."
                                  ELSE "Generating new layer..."
             /\ error' = NoMsg
             /\ ops' = Started(NewOp("generate",
                        IF hasPointSelection \/ hasBrushSelection
                        THEN "service" ELSE "throw",
                        IF activeLayer # <<>> THEN activeLayer[1].id
                        ELSE NoLayer,
                        prompt, FALSE, FALSE))
  /\ UNCHANGED <<history, historyIndex, activeLayerId, prompt, activeTab,
                 activeTool, maskImage, editHotspot, revoked, nextUrl, lastId,
                 svc, aiSuggestions, isSuggestionsModalOpen, downloads>>

\* the catch and finally blocks shared by generate, remove, global edit,
\* download (lines 229-235, 265-271, 300-306, 531-537)
CatchFinally_push(op) ==
  /\ error' = FailureMessage(op.kind)
  /\ loadingMessage' = NoMsg
  /\ ops' = Ended(op)
  /\ history' = Append(op.keep, CapState(op))
  /\ historyIndex' = Len(op.keep)
  /\ UNCHANGED <<activeLayerId, prompt, activeTab, activeTool, maskImage,
                 editHotspot, revoked, nextUrl, lastId, svc, aiSuggestions,
                 isSuggestionsModalOpen, calls, downloads>>
CatchFinally(op) ==
  /\ error' = FailureMessage(op.kind)
  /\ loadingMessage' = NoMsg
  /\ ops' = Ended(op)
  /\ UNCHANGED <<history, historyIndex, activeLayerId, prompt, activeTab,
                 activeTool, maskImage, editHotspot, revoked, nextUrl, lastId,
                 svc, aiSuggestions, isSuggestionsModalOpen, calls,
                 downloads>>

\* generateEditedImage throws before contacting the model (line 962)
generateThrows(op) ==
  /\ op.kind = "generate" /\ op.stage = "throw"
  /\ CatchFinally(op)

\* the service call fails, is blocked, or answers without an image
serviceRejects(op) ==
  /\ Quiescent
  /\ op.kind \in {"generate", "remove", "global"}
  /\ op.stage = "service"
  /\ CatchFinally(op)

ReplaceLayer_append(ls, id, r, pr) ==
  Append(ls, [id |-> id, imageUrl |-> r, prompt |-> pr])
\* layers.map(l => l.id === activeLayer.id ? updatedLayer : l)
ReplaceLayer(ls, id, r, pr) ==
  [j \in DOMAIN ls |->
     IF ls[j].id = id THEN [id |-> id, imageUrl |-> r, prompt |-> pr]
     ELSE ls[j]]
ClockReadings_repeat(t0) == {t \in 1..(lastId + 1) : t >= lastId}
\* Date.now(): later than every earlier reading, or equal to the latest one
\* when that one was taken while this call was already in flight
ClockReadings(t0) ==
  {t \in 1..(lastId + 1) : t = lastId + 1 \/ (t = lastId /\ t0 < lastId)}

generateResolves(op, t) ==
  /\ Quiescent
  /\ op.kind = "generate" /\ op.stage = "service"
  /\ LET capState == CapState(op)
         capActive == FindLayer(capState.layers, op.layerId)
         newLayers ==
           IF capActive # <<>>
           THEN ReplaceLayer(capState.layers, op.layerId, DataUrl(op.n),
                             op.prompt)
           ELSE Append(capState.layers,
                       [id |-> t, imageUrl |-> DataUrl(op.n),
                        prompt |-> op.prompt])
         newActiveLayerId == IF capActive # <<>> THEN op.layerId ELSE t
     IN /\ capActive = <<>> => t \in ClockReadings(op.t0)
        /\ capActive # <<>> => t = lastId
        /\ Render(Append(op.keep, [imageUrl |-> capState.imageUrl,
                                    layers |-> newLayers]),
                  Len(op.keep), newActiveLayerId, activeTab, activeTool,
                  FALSE, prompt, TRUE)
        /\ revoked' = revoked \cup op.drop
        /\ lastId' = t
  /\ editHotspot' = NoPoint
  /\ loadingMessage' = NoMsg
  /\ ops' = Ended(op)
  /\ UNCHANGED <<error, nextUrl, calls, svc, aiSuggestions,
                 isSuggestionsModalOpen, downloads>>

(* ---------------- remove, global edit, crop, download ------------------ *)
StartOp(kind, msg, upscale, addWatermark) ==
  /\ calls < MaxCalls /\ BagCardinality(ops) < MaxOps
  /\ calls' = calls + 1
  /\ loadingMessage' =
       IF Len(currentLayers) = 0 THEN MessageAfterFlatten(kind, upscale, msg)
       ELSE msg
  /\ ops' = Started(NewOp(kind, FlattenStart(kind, upscale), NoLayer, "",
                          upscale, addWatermark))

handleRemove ==
  /\ Quiescent /\ ToolbarEnabled
  /\ IF currentState = <<>> \/ ~maskImage
     THEN /\ error' = "Please use the brush to select an area to remove."
          /\ UNCHANGED <<loadingMessage, ops, calls>>
     ELSE /\ StartOp("remove", "Removing selected object...", FALSE, FALSE)
          /\ error' = NoMsg
  /\ UNCHANGED <<history, historyIndex, activeLayerId, prompt, activeTab,
                 activeTool, maskImage, editHotspot, revoked, nextUrl, lastId,
                 svc, aiSuggestions, isSuggestionsModalOpen, downloads>>

\* handleApplyGlobalEdit, whoever calls it
ApplyGlobalEdit ==
  /\ IF currentState = <<>>
     THEN /\ error' = "No image loaded to apply an edit to."
          /\ UNCHANGED <<loadingMessage, ops, calls>>
     ELSE /\ StartOp("global", "Applying adjustment...", FALSE, FALSE)
          /\ error' = NoMsg
  /\ UNCHANGED <<history, historyIndex, activeLayerId, prompt, activeTab,
                 activeTool, maskImage, editHotspot, revoked, nextUrl, lastId,
                 svc, aiSuggestions, downloads>>

\* the Apply buttons of the adjust, filter, studio, product and solutions
\* panels are disabled while isLoading
handleApplyGlobalEdit ==
  /\ Quiescent /\ EditorShown
  /\ activeTab = "other" /\ ~isLoading
  /\ ApplyGlobalEdit
  /\ UNCHANGED isSuggestionsModalOpen

\* The crop button is disabled while isLoading or without a selection, so
\* the handler's own check of completedCrop (line 343) never fails.  A
\* selection is drawn on the image, which the loading overlay covers while
\* isLoading, and is only ever read here: drawing it and pressing the button
\* are one step, and completedCrop is no variable.
handleApplyCrop ==
  /\ Quiescent /\ CanvasReachable
  /\ activeTab = "other"
  /\ StartOp("crop", "Applying crop...", FALSE, FALSE)
  /\ UNCHANGED error
  /\ UNCHANGED <<history, historyIndex, activeLayerId, prompt, activeTab,
                 activeTool, maskImage, editHotspot, revoked, nextUrl, lastId,
                 svc, aiSuggestions, isSuggestionsModalOpen, downloads>>

\* what the DownloadModal passes on: the format and quality only go into
\* canvas.toDataURL and are left out
DownloadOptions == [upscale : BOOLEAN, addWatermark : BOOLEAN]

\* The Download button (never disabled) opens DownloadModal and its confirm
\* button calls handleConfirmDownload; opening or cancelling the dialog
\* changes no other state, so the two clicks are one step here.
handleConfirmDownload(options) ==
  /\ Quiescent /\ EditorShown
  /\ IF currentState = <<>>
     THEN UNCHANGED <<loadingMessage, error, ops, calls>>
     ELSE /\ StartOp("download", "Preparing download...", options.upscale,
                  options.addWatermark)
          /\ error' = NoMsg
  /\ UNCHANGED <<history, historyIndex, activeLayerId, prompt, activeTab,
                 activeTool, maskImage, editHotspot, revoked, nextUrl, lastId,
                 svc, aiSuggestions, isSuggestionsModalOpen, downloads>>

(* ------------------------------ flatten ------------------------------- *)
OpFrame ==
  UNCHANGED <<history, historyIndex, activeLayerId, prompt, activeTab,
              activeTool, maskImage, editHotspot, revoked, nextUrl, lastId,
              svc, aiSuggestions, isSuggestionsModalOpen, calls, downloads>>
Flattening(op) ==
  /\ Quiescent
  /\ op.kind \in {"remove", "global", "crop", "download"}
FlattenDone(op, drawn) ==
  /\ ops' = SetStage(op, AfterFlatten(op.kind, op.upscale), drawn,
                     Append(op.steps, "flatten"))
  /\ loadingMessage' =
       MessageAfterFlatten(op.kind, op.upscale, loadingMessage)

\* baseImg.onload fires; with no 2d context flattenImage returns the base
\* file as it is (line 321)
flattenBaseLoaded(op, ctx) ==
  /\ Flattening(op) /\ op.stage = "base"
  /\ CapState(op).imageUrl \notin revoked
  /\ IF ctx
     THEN /\ ops' = SetStage(op, "layers", <<CapState(op).imageUrl>>, op.steps)
          /\ UNCHANGED loadingMessage
     ELSE FlattenDone(op, <<>>)
  /\ UNCHANGED error
  /\ OpFrame

\* the base image never loads: no onerror is attached, the promise of line
\* 315 stays pending and nothing of this call runs again
flattenBaseNeverLoads(op) ==
  /\ Flattening(op) /\ op.stage = "base"
  /\ ops' = Ended(op)
  /\ UNCHANGED <<loadingMessage, error>>
  /\ OpFrame

flattenLayerLoaded_topFirst(op) ==
  /\ Flattening(op) /\ op.stage = "layers"
  /\ LET layer == CapLayers(op)[Len(CapLayers(op)) + 1 - Len(op.drawn)]
         canvas == Append(op.drawn, layer.imageUrl)
     IN IF Len(canvas) = Len(CapLayers(op)) + 1
        THEN FlattenDone(op, canvas)
        ELSE /\ ops' = SetStage(op, "layers", canvas, op.steps)
             /\ UNCHANGED loadingMessage
  /\ UNCHANGED error
  /\ OpFrame
\* layerImg.onload of the layer the loop of line 325 is at: the canvas holds
\* the base and the layers before it, and the layer is drawn over them
flattenLayerLoaded(op) ==
  /\ Flattening(op) /\ op.stage = "layers"
  /\ LET layer == CapLayers(op)[Len(op.drawn)]
         canvas == Append(op.drawn, layer.imageUrl)
     IN IF Len(canvas) = Len(CapLayers(op)) + 1
        THEN FlattenDone(op, canvas)
        ELSE /\ ops' = SetStage(op, "layers", canvas, op.steps)
             /\ UNCHANGED loadingMessage
  /\ UNCHANGED error
  /\ OpFrame

flattenLayerError_partial(op) ==
  /\ Flattening(op) /\ op.stage = "layers"
  /\ FlattenDone(op, op.drawn)
  /\ UNCHANGED error
  /\ OpFrame
\* layerImg.onerror rejects flattenImage; handleApplyCrop has no try/catch
flattenLayerError(op) ==
  /\ Flattening(op) /\ op.stage = "layers"
  /\ IF op.kind = "crop"
     THEN /\ ops' = Ended(op)
          /\ UNCHANGED <<loadingMessage, error>>
          /\ OpFrame
     ELSE CatchFinally(op)

(* ------------------------- completions -------------------------------- *)
\* removeObjectInpainting / editFunction resolved with an image
editResolves(op) ==
  /\ Quiescent
  /\ op.kind \in {"remove", "global"} /\ op.stage = "service"
  /\ Render(Append(op.keep, [imageUrl |-> nextUrl, layers |-> <<>>]),
            Len(op.keep),
            IF op.kind = "remove" THEN NoLayer ELSE activeLayerId,
            activeTab, activeTool, FALSE, prompt, FALSE)
  /\ revoked' = revoked \cup op.drop
  /\ nextUrl' = nextUrl + 1
  /\ editHotspot' = IF op.kind = "remove" THEN NoPoint ELSE editHotspot
  /\ loadingMessage' = NoMsg
  /\ ops' = Ended(op)
  /\ UNCHANGED <<error, lastId, svc, aiSuggestions, isSuggestionsModalOpen,
                 calls, downloads>>

cropImageLoaded_keepLayers(op, ctx) ==
  /\ Quiescent
  /\ op.kind = "crop" /\ op.stage = "load"
  /\ IF ~ctx
     THEN /\ error' = "Could not process the crop."
          /\ UNCHANGED <<history, historyIndex, activeLayerId, prompt,
                         activeTab, activeTool, maskImage, revoked, nextUrl>>
     ELSE /\ Render(Append(op.keep, [imageUrl |-> nextUrl,
                                      layers |-> CapLayers(op)]),
                    Len(op.keep), activeLayerId, activeTab, activeTool,
                    FALSE, prompt, FALSE)
          /\ revoked' = revoked \cup op.drop
          /\ nextUrl' = nextUrl + 1
          /\ UNCHANGED error
  /\ loadingMessage' = NoMsg
  /\ ops' = Ended(op)
  /\ UNCHANGED <<editHotspot, lastId, svc, aiSuggestions,
                 isSuggestionsModalOpen, calls, downloads>>

\* image.onload of handleApplyCrop (lines 353-400)
cropImageLoaded(op, ctx) ==
  /\ Quiescent
  /\ op.kind = "crop" /\ op.stage = "load"
  /\ IF ~ctx
     THEN /\ error' = "Could not process the crop."
          /\ UNCHANGED <<history, historyIndex, activeLayerId, prompt,
                         activeTab, activeTool, maskImage, revoked, nextUrl>>
     ELSE /\ Render(Append(op.keep, [imageUrl |-> nextUrl, layers |-> <<>>]),
                    Len(op.keep), activeLayerId, activeTab, activeTool,
                    FALSE, prompt, FALSE)
          /\ revoked' = revoked \cup op.drop
          /\ nextUrl' = nextUrl + 1
          /\ UNCHANGED error
  /\ loadingMessage' = NoMsg
  /\ ops' = Ended(op)
  /\ UNCHANGED <<editHotspot, lastId, svc, aiSuggestions,
                 isSuggestionsModalOpen, calls, downloads>>

\* the flattened (or upscaled) image never loads: no onerror is attached
\* (lines 352-401 and 500-502), nothing of this call runs again
imageNeverLoads(op) ==
  /\ Quiescent
  /\ op.kind \in {"crop", "download"} /\ op.stage = "load"
  /\ ops' = Ended(op)
  /\ UNCHANGED <<loadingMessage, error>>
  /\ OpFrame

upscaleResolves(op) ==
  /\ Quiescent
  /\ op.kind = "download" /\ op.stage = "upscale"
  /\ ops' = SetStage(op, "load", op.drawn, Append(op.steps, "upscale"))
  /\ UNCHANGED <<loadingMessage, error>>
  /\ OpFrame

upscaleRejects(op) ==
  /\ Quiescent
  /\ op.kind = "download" /\ op.stage = "upscale"
  /\ CatchFinally(op)

\* the file of link.click(): the rasters on the canvas, bottom first, and
\* the steps that made it
ExportedFile(op) ==
  [image |-> IF op.drawn = <<>> THEN <<CapState(op).imageUrl>> ELSE op.drawn,
   steps |-> op.steps \o (IF op.addWatermark THEN <<"watermark">> ELSE <<>>)
                     \o <<"encode">>]

downloadImageLoaded_push(op, ctx) ==
  /\ Quiescent
  /\ op.kind = "download" /\ op.stage = "load"
  /\ IF ctx
     THEN /\ downloads' = Append(downloads, ExportedFile(op))
          /\ loadingMessage' = NoMsg
          /\ ops' = Ended(op)
          /\ Render(Append(op.keep, [imageUrl |-> nextUrl, layers |-> <<>>]),
                    Len(op.keep), activeLayerId, activeTab, activeTool,
                    FALSE, prompt, FALSE)
          /\ nextUrl' = nextUrl + 1
          /\ UNCHANGED <<error, editHotspot, revoked, lastId, svc,
                         aiSuggestions, isSuggestionsModalOpen, calls>>
     ELSE CatchFinally(op)
\* image.onload of handleConfirmDownload: the image is drawn, the caption
\* over it if asked for, the canvas is encoded and link.click() hands the
\* file off; without a 2d context line 508 throws
downloadImageLoaded(op, ctx) ==
  /\ Quiescent
  /\ op.kind = "download" /\ op.stage = "load"
  /\ IF ctx
     THEN /\ downloads' = Append(downloads, ExportedFile(op))
          /\ loadingMessage' = NoMsg
          /\ ops' = Ended(op)
          /\ UNCHANGED <<history, historyIndex, activeLayerId, prompt,
                         activeTab, activeTool, maskImage, error, editHotspot,
                         revoked, nextUrl, lastId, svc, aiSuggestions,
                         isSuggestionsModalOpen, calls>>
     ELSE CatchFinally(op)

(* ----------------------------- suggestions ---------------------------- *)
\* The "AI Art Director" button and the cards of the SuggestionsModal take
\* no isLoading: once suggestions are on screen, a card starts a global edit
\* whatever else is in flight.
handleApplySuggestion ==
  /\ Quiescent /\ EditorShown
  /\ isSuggestionsModalOpen' = FALSE
  /\ ApplyGlobalEdit

\* the editor without its export dialog
EditNext ==
  \/ handleImageUpload
  \/ handleUndo
  \/ handleRedo
  \/ handleReset
  \/ handleUploadNew
  \/ dismissError
  \/ \E tab \in Tabs : setActiveTab(tab)
  \/ \E tool \in Tools : setActiveTool(tool)
  \/ \E p \in Prompts : setPrompt(p)
  \/ onMaskChange
  \/ handleBaseImageClick(MiddleClick)
  \/ \E id \in 1..lastId : handleSelectLayer(id)
  \/ \E id \in 1..lastId : handleDeleteLayer(id)
  \/ handleGenerate
  \/ handleRemove
  \/ handleApplyGlobalEdit
  \/ handleApplyCrop
  \/ handleApplySuggestion
  \/ \E op \in DOMAIN ops : generateThrows(op)
  \/ \E op \in DOMAIN ops : serviceRejects(op)
  \/ \E op \in DOMAIN ops, t \in 0..(lastId + 1) : generateResolves(op, t)
  \/ \E op \in DOMAIN ops, ctx \in BOOLEAN : flattenBaseLoaded(op, ctx)
  \/ \E op \in DOMAIN ops : flattenBaseNeverLoads(op)
  \/ \E op \in DOMAIN ops : flattenLayerLoaded(op)
  \/ \E op \in DOMAIN ops : flattenLayerError(op)
  \/ \E op \in DOMAIN ops : editResolves(op)
  \/ \E op \in DOMAIN ops, ctx \in BOOLEAN : cropImageLoaded(op, ctx)
  \/ \E op \in DOMAIN ops : imageNeverLoads(op)

\* the export dialog and the calls it starts
DownloadNext ==
  \/ \E options \in DownloadOptions : handleConfirmDownload(options)
  \/ \E op \in DOMAIN ops : upscaleResolves(op)
  \/ \E op \in DOMAIN ops : upscaleRejects(op)
  \/ \E op \in DOMAIN ops, ctx \in BOOLEAN : downloadImageLoaded(op, ctx)

Next == EditNext \/ DownloadNext

\* the whole application
Spec == Init /\ [][Next]_vars
\* the history engine: every handler that reads or writes the history, with
\* no export running beside it
SpecEdit == Init /\ [][EditNext]_vars

(* --------------------------- flatten alone ---------------------------- *)
\* The editor after an upload and n generates with no layer selected, the
\* j-th of them answered with DataUrl(j + 1) at clock reading j, and with the
\* pointer moved to entry i by undo and redo: entry k holds the first k
\* layers over the uploaded base, no layer is selected, and the effects of
\* lines 115-139 have emptied the prompt and reset the tool.  One call of
\* the run is left.
GeneratedLayer(j) == [id |-> j, imageUrl |-> DataUrl(j + 1), prompt |-> "hat"]
GeneratedHistory(n) ==
  [k \in 1..(n + 1) |->
     [imageUrl |-> 1, layers |-> [j \in 1..(k - 1) |-> GeneratedLayer(j)]]]
InitFlatten ==
  \E n \in 0..MaxLayers, i \in 0..MaxLayers :
    /\ i <= n
    /\ history = GeneratedHistory(n)
    /\ historyIndex = i
    /\ activeLayerId = NoLayer
    /\ prompt = ""
    /\ activeTab = "edit"
    /\ activeTool = "point"
    /\ maskImage = FALSE
    /\ loadingMessage = NoMsg
    /\ error = NoMsg
    /\ editHotspot = NoPoint
    /\ revoked = {}
    /\ nextUrl = 2
    /\ lastId = n
    /\ ops = EmptyBag
    /\ calls = MaxCalls - 1
    /\ svc = NoCall
    /\ aiSuggestions = NoSuggestions
    /\ isSuggestionsModalOpen = FALSE
    /\ downloads = <<>>

\* the handlers that call flattenImage, the controls that lead to them, the
\* steps of flattenImage and what follows it
FlattenNext ==
  \/ \E tab \in Tabs : setActiveTab(tab)
  \/ \E tool \in Tools : setActiveTool(tool)
  \/ onMaskChange
  \/ handleRemove
  \/ handleApplyGlobalEdit
  \/ handleApplyCrop
  \/ \E options \in DownloadOptions : handleConfirmDownload(options)
  \/ \E op \in DOMAIN ops, ctx \in BOOLEAN : flattenBaseLoaded(op, ctx)
  \/ \E op \in DOMAIN ops : flattenBaseNeverLoads(op)
  \/ \E op \in DOMAIN ops : flattenLayerLoaded(op)
  \/ \E op \in DOMAIN ops : flattenLayerError(op)
  \/ \E op \in DOMAIN ops : serviceRejects(op)
  \/ \E op \in DOMAIN ops : editResolves(op)
  \/ \E op \in DOMAIN ops, ctx \in BOOLEAN : cropImageLoaded(op, ctx)
  \/ \E op \in DOMAIN ops : imageNeverLoads(op)
  \/ \E op \in DOMAIN ops : upscaleResolves(op)
  \/ \E op \in DOMAIN ops : upscaleRejects(op)
  \/ \E op \in DOMAIN ops, ctx \in BOOLEAN : downloadImageLoaded(op, ctx)

\* flattenImage and its callers, on an entry of up to MaxLayers layers
SpecFlatten == InitFlatten /\ [][FlattenNext]_vars

(* ------------------------- the editing context ------------------------ *)
\* the synchronous controls of the editor: tabs, tools, brush, clicks on
\* the image, the layers panel, undo and redo
ContextNext ==
  \/ handleUndo
  \/ handleRedo
  \/ \E tab \in Tabs : setActiveTab(tab)
  \/ \E tool \in Tools : setActiveTool(tool)
  \/ onMaskChange
  \/ handleBaseImageClick(MiddleClick)
  \/ \E id \in 1..lastId : handleSelectLayer(id)
  \/ \E id \in 1..lastId : handleDeleteLayer(id)

\* the controls at work on a history of up to MaxLayers generated layers
SpecContext == InitFlatten /\ [][ContextNext]_vars

(* ------------------------------- export ------------------------------- *)
\* the export of an entry with up to MaxLayers layers, step by step
ExportNext ==
  \/ \E options \in DownloadOptions : handleConfirmDownload(options)
  \/ \E op \in DOMAIN ops, ctx \in BOOLEAN : flattenBaseLoaded(op, ctx)
  \/ \E op \in DOMAIN ops : flattenBaseNeverLoads(op)
  \/ \E op \in DOMAIN ops : flattenLayerLoaded(op)
  \/ \E op \in DOMAIN ops : flattenLayerError(op)
  \/ \E op \in DOMAIN ops : upscaleResolves(op)
  \/ \E op \in DOMAIN ops : upscaleRejects(op)
  \/ \E op \in DOMAIN ops, ctx \in BOOLEAN : downloadImageLoaded(op, ctx)
  \/ \E op \in DOMAIN ops : imageNeverLoads(op)
  \/ dismissError

SpecExport == InitFlatten /\ [][ExportNext]_vars

(* ------------------------- clicks on the image ------------------------ *)
\* the point tool at work: clicks of every geometry, the tool and layer
\* selections that discard the point
ClickNext ==
  \/ \E c \in Clicks : handleBaseImageClick(c)
  \/ \E tool \in Tools : setActiveTool(tool)
  \/ \E id \in 1..lastId : handleSelectLayer(id)

SpecClick == InitFlatten /\ [][ClickNext]_vars

(* ---------------------------- service layer --------------------------- *)
\* What a function of the service layer ends with: an Error thrown, or a
\* value returned; contacted says whether ai.models.generateContent was
\* called on the way.
Throws(msg, contacted) ==
  [throws |-> TRUE, value |-> msg, contacted |-> contacted]
Returns(v) == [throws |-> FALSE, value |-> v, contacted |-> TRUE]

\* The environment of a call: process.env.API_KEY is set, FileReader reads
\* the image file.
Envs == [apiKey : BOOLEAN, fileReads : BOOLEAN]
\* What generateContent answers.  rejects: the call fails.  Otherwise the
\* response has a promptFeedback.blockReason or not, the parts of its first
\* candidate ("image" = a part with inlineData), that candidate's
\* finishReason, and its text: hasText is FALSE when response.text is
\* undefined, lines are the lines of the trimmed text, json is what
\* JSON.parse makes of it.
PartLists ==
  {<<>>} \cup {<<p>> : p \in {"text", "image"}}
         \cup {<<p, q>> : p \in {"text", "image"}, q \in {"text", "image"}}
NoJson == [kind |-> "unparsable", items |-> <<>>]
ImageReplies ==
  [rejects : {FALSE}, blockReason : BOOLEAN, parts : PartLists,
   finishReason : {"undefined", "STOP", "SAFETY"}, hasText : {TRUE},
   lines : {<<>>}, json : {NoJson}]
Rejection ==
  [rejects |-> TRUE, blockReason |-> FALSE, parts |-> <<>>,
   finishReason |-> "undefined", hasText |-> FALSE, lines |-> <<>>,
   json |-> NoJson]
\* the options of generateEditedImage: which of hotspot and maskImage the
\* caller passes
EditOptions == [hotspot : BOOLEAN, maskImage : BOOLEAN]
NoOptions == [hotspot |-> FALSE, maskImage |-> FALSE]

\* `data:${mimeType};base64,${data}` of the image part
ImageDataUrl == "data:image/png;base64,AAAA"
handleApiResponse_imageFirst(response) ==
  IF \E k \in DOMAIN response.parts : response.parts[k] = "image"
  THEN Returns(ImageDataUrl)
  ELSE IF response.blockReason
  THEN Throws("Request was blocked.", TRUE)
  ELSE Throws("The AI model did not return an image.", TRUE)
handleApiResponse(response) ==
  IF response.blockReason
  THEN Throws("Request was blocked.", TRUE)
  ELSE IF \E k \in DOMAIN response.parts : response.parts[k] = "image"
  THEN Returns(ImageDataUrl)
  ELSE IF response.finishReason \notin {"undefined", "STOP"}
  THEN Throws("Image generation stopped unexpectedly.", TRUE)
  ELSE Throws("The AI model did not return an image.", TRUE)

\* getAiClient, fileToPart, generateContent and handleApiResponse, as in
\* removeObjectInpainting, generateFilteredImage, generateAdjustedImage and
\* upscaleImage
ImageCall(env, reply) ==
  IF ~env.apiKey THEN Throws("The Gemini API key is missing.", FALSE)
  ELSE IF ~env.fileReads THEN Throws("FileReader error", FALSE)
  ELSE IF reply.rejects THEN Throws("generateContent failed", TRUE)
  ELSE handleApiResponse(reply)

generateEditedImage(options, env, reply) ==
  IF ~options.hotspot /\ ~options.maskImage
  THEN Throws("Either a hotspot or a mask is required for editing.", FALSE)
  ELSE ImageCall(env, reply)

ImageFunctions ==
  {"generateEditedImage", "removeObjectInpainting", "generateFilteredImage",
   "generateAdjustedImage", "upscaleImage"}
\* the call svc holds, evaluated
Evaluate(call) ==
  IF call.fn = "generateEditedImage"
  THEN generateEditedImage(call.options, call.env, call.reply)
  ELSE ImageCall(call.env, call.reply)

\* some caller invokes an exported image function
callService(fn, options, env, reply) ==
  /\ svc = NoCall
  /\ fn # "generateEditedImage" => options = NoOptions
  /\ svc' = <<[fn |-> fn, options |-> options, simplePrompt |-> "",
              env |-> env, reply |-> reply, out |-> <<>>]>>
  /\ UNCHANGED <<history, historyIndex, activeLayerId, prompt, activeTab,
                 activeTool, maskImage, loadingMessage, error, editHotspot,
                 revoked, nextUrl, lastId, ops, calls, aiSuggestions,
                 isSuggestionsModalOpen, downloads>>
\* the promise it returned settles
serviceSettles ==
  /\ svc # NoCall /\ svc[1].fn \in ImageFunctions /\ svc[1].out = <<>>
  /\ svc' = <<[svc[1] EXCEPT !.out = <<Evaluate(svc[1])>>]>>
  /\ UNCHANGED <<history, historyIndex, activeLayerId, prompt, activeTab,
                 activeTool, maskImage, loadingMessage, error, editHotspot,
                 revoked, nextUrl, lastId, ops, calls, aiSuggestions,
                 isSuggestionsModalOpen, downloads>>
\* and the caller has taken the result
serviceDone ==
  /\ svc # NoCall /\ svc[1].fn \in ImageFunctions /\ svc[1].out # <<>>
  /\ svc' = NoCall
  /\ UNCHANGED <<history, historyIndex, activeLayerId, prompt, activeTab,
                 activeTool, maskImage, loadingMessage, error, editHotspot,
                 revoked, nextUrl, lastId, ops, calls, aiSuggestions,
                 isSuggestionsModalOpen, downloads>>

ServiceNext ==
  \/ \E fn \in ImageFunctions, options \in EditOptions, env \in Envs,
        reply \in ImageReplies \cup {Rejection} :
       callService(fn, options, env, reply)
  \/ serviceSettles
  \/ serviceDone
\* the image functions of the service layer under every call
SpecService == Init /\ [][ServiceNext]_vars

(* ----------------------------- assistants ---------------------------- *)
\* what the text model answers to enhancePrompt: a failed call, a response
\* without text, an empty text, one line, a preamble and a line
EnhanceReplies ==
  {Rejection}
  \cup [rejects : {FALSE}, blockReason : {FALSE}, parts : {<<>>},
        finishReason : {"STOP"}, hasText : {FALSE}, lines : {<<>>},
        json : {NoJson}]
  \cup [rejects : {FALSE}, blockReason : {FALSE}, parts : {<<"text">>},
        finishReason : {"STOP"}, hasText : {TRUE},
        lines : {<<>>, <<"a red hat">>, <<"Sure:", "a red hat">>},
        json : {NoJson}]

\* enhancePrompt: getAiClient is called before the try block (line 1167);
\* inside it a failed call, and the TypeError of response.text.trim() on a
\* response without text, end in the catch of line 1186
enhancePrompt(simplePrompt, env, reply) ==
  IF Trim(simplePrompt) = ""
  THEN [throws |-> FALSE, value |-> "", contacted |-> FALSE]
  ELSE IF ~env.apiKey THEN Throws("The Gemini API key is missing.", FALSE)
  ELSE IF reply.rejects \/ ~reply.hasText THEN Returns(simplePrompt)
  ELSE IF reply.lines = <<>> THEN Returns("")
  ELSE Returns(reply.lines[Len(reply.lines)])

isEnhancingPrompt == svc # NoCall /\ svc[1].fn = "enhancePrompt"

\* the enhance button of the EditToolbar
handleEnhancePrompt(env, reply) ==
  /\ Quiescent /\ ToolbarEnabled
  /\ svc = NoCall
  /\ Trim(prompt) # ""
  /\ svc' = <<[fn |-> "enhancePrompt", options |-> NoOptions,
              simplePrompt |-> prompt, env |-> env, reply |-> reply,
              out |-> <<>>]>>
  /\ UNCHANGED <<history, historyIndex, activeLayerId, prompt, activeTab,
                 activeTool, maskImage, loadingMessage, error, editHotspot,
                 revoked, nextUrl, lastId, ops, calls, aiSuggestions,
                 isSuggestionsModalOpen, downloads>>

\* enhancePrompt settles: setPrompt(enhanced), or the catch of line 411
enhanceSettles ==
  /\ Quiescent
  /\ isEnhancingPrompt
  /\ LET enhanced == enhancePrompt(svc[1].simplePrompt, svc[1].env,
                                   svc[1].reply)
     IN prompt' = IF enhanced.throws THEN prompt ELSE enhanced.value
  /\ svc' = NoCall
  /\ UNCHANGED <<history, historyIndex, activeLayerId, activeTab, activeTool,
                 maskImage, loadingMessage, error, editHotspot, revoked,
                 nextUrl, lastId, ops, calls, aiSuggestions,
                 isSuggestionsModalOpen, downloads>>

\* what the text model answers to getAiSuggestions: a failed call, a
\* response without text, and texts that JSON.parse rejects or turns into
\* null, an object, or an array of zero to three items, well-formed or not
Suggestion == [title |-> "Warm tones", prompt |-> "Add warmth to the skin"]
Malformed == [title |-> "undefined", prompt |-> "undefined"]
JsonValues ==
  {NoJson, [kind |-> "null", items |-> <<>>],
   [kind |-> "object", items |-> <<>>]}
  \cup [kind : {"array"},
        items : {<<>>, <<Suggestion>>, <<Malformed>>,
                 <<Suggestion, Suggestion, Suggestion>>}]
SuggestReplies ==
  {Rejection}
  \cup [rejects : {FALSE}, blockReason : {FALSE}, parts : {<<>>},
        finishReason : {"STOP"}, hasText : {FALSE}, lines : {<<>>},
        json : {NoJson}]
  \cup [rejects : {FALSE}, blockReason : {FALSE}, parts : {<<"text">>},
        finishReason : {"STOP"}, hasText : {TRUE}, lines : {<<>>},
        json : JsonValues]

getAiSuggestions_noCheck(env, reply) ==
  IF ~env.apiKey THEN Throws("The Gemini API key is missing.", FALSE)
  ELSE IF ~env.fileReads THEN Throws("FileReader error", FALSE)
  ELSE IF reply.rejects \/ ~reply.hasText \/ reply.json.kind # "array"
  THEN Throws("The AI was unable to provide suggestions for this image.",
              TRUE)
  ELSE Returns(reply.json.items)
\* getAiSuggestions: getAiClient and fileToPart run before the try block;
\* every error inside it is replaced by the one of line 1260
getAiSuggestions(env, reply) ==
  IF ~env.apiKey THEN Throws("The Gemini API key is missing.", FALSE)
  ELSE IF ~env.fileReads THEN Throws("FileReader error", FALSE)
  ELSE IF \/ reply.rejects \/ ~reply.hasText
          \/ reply.json.kind # "array" \/ Len(reply.json.items) = 0
  THEN Throws("The AI was unable to provide suggestions for this image.",
              TRUE)
  ELSE Returns(reply.json.items)

isSuggesting == svc # NoCall /\ svc[1].fn = "getAiSuggestions"

\* the "AI Art Director" button, which takes no isLoading
handleGetSuggestions(env, reply) ==
  /\ Quiescent /\ EditorShown
  /\ svc = NoCall
  /\ currentState # <<>>
  /\ isSuggestionsModalOpen' = TRUE
  /\ aiSuggestions' = NoSuggestions
  /\ error' = NoMsg
  /\ svc' = <<[fn |-> "getAiSuggestions", options |-> NoOptions,
              simplePrompt |-> "", env |-> env, reply |-> reply,
              out |-> <<>>]>>
  /\ UNCHANGED <<history, historyIndex, activeLayerId, prompt, activeTab,
                 activeTool, maskImage, loadingMessage, editHotspot, revoked,
                 nextUrl, lastId, ops, calls, downloads>>

\* getAiSuggestions settles: lines 426 or 428-430, then finally
suggestionsSettle ==
  /\ Quiescent
  /\ isSuggesting
  /\ LET suggestions == getAiSuggestions(svc[1].env, svc[1].reply)
     IN IF suggestions.throws
        THEN /\ error' = "Failed to get suggestions. " \o suggestions.value
             /\ aiSuggestions' = NoSuggestions
        ELSE /\ aiSuggestions' = <<suggestions.value>>
             /\ UNCHANGED error
  /\ svc' = NoCall
  /\ UNCHANGED <<history, historyIndex, activeLayerId, prompt, activeTab,
                 activeTool, maskImage, loadingMessage, editHotspot, revoked,
                 nextUrl, lastId, ops, calls, isSuggestionsModalOpen,
                 downloads>>

\* onClose of the SuggestionsModal
closeSuggestions ==
  /\ isSuggestionsModalOpen
  /\ isSuggestionsModalOpen' = FALSE
  /\ UNCHANGED <<history, historyIndex, activeLayerId, prompt, activeTab,
                 activeTool, maskImage, loadingMessage, error, editHotspot,
                 revoked, nextUrl, lastId, ops, calls, svc, aiSuggestions,
                 downloads>>

AssistNext ==
  \/ \E p \in Prompts : setPrompt(p)
  \/ \E env \in Envs, reply \in EnhanceReplies :
       handleEnhancePrompt(env, reply)
  \/ enhanceSettles
  \/ \E env \in Envs, reply \in SuggestReplies :
       handleGetSuggestions(env, reply)
  \/ suggestionsSettle
  \/ closeSuggestions
  \/ dismissError
\* the prompt and suggestion assistants at work in the editor
SpecAssist == InitFlatten /\ [][AssistNext]_vars

\* the export and the two assistants at work while undo and redo move the
\* pointer: each assistant gets one failing and one successful answer
BesideNext ==
  \/ handleUndo
  \/ handleRedo
  \/ setPrompt("hat")
  \/ \E env \in Envs,
        reply \in {r \in EnhanceReplies : r.rejects \/ Len(r.lines) = 1} :
       handleEnhancePrompt(env, reply)
  \/ enhanceSettles
  \/ \E env \in Envs,
        reply \in {r \in SuggestReplies :
                     r.rejects \/ r.json.items = <<Suggestion>>} :
       handleGetSuggestions(env, reply)
  \/ suggestionsSettle
  \/ \E options \in DownloadOptions : handleConfirmDownload(options)
  \/ \E op \in DOMAIN ops, ctx \in BOOLEAN : flattenBaseLoaded(op, ctx)
  \/ \E op \in DOMAIN ops : flattenBaseNeverLoads(op)
  \/ \E op \in DOMAIN ops : flattenLayerLoaded(op)
  \/ \E op \in DOMAIN ops : flattenLayerError(op)
  \/ \E op \in DOMAIN ops : upscaleResolves(op)
  \/ \E op \in DOMAIN ops : upscaleRejects(op)
  \/ \E op \in DOMAIN ops, ctx \in BOOLEAN : downloadImageLoaded(op, ctx)
  \/ \E op \in DOMAIN ops : imageNeverLoads(op)
SpecBeside == InitFlatten /\ [][BesideNext]_vars

(* ------------------------------ teardown ------------------------------ *)
\* The cleanup of lines 142-146 belongs to an effect with no dependencies:
\* it is the function made by the first render and the history it iterates
\* is the one of that render, the initial [] of line 60.
CleanupHistory == <<>>
\* App is unmounted: the cleanup runs, the state cells are gone and what the
\* calls in flight set later is dropped; a later mount starts from the
\* initial values again, in the same document (the URLs allocated and
\* revoked so far, the clock).
unmount ==
  /\ revoked' = revoked \cup {CleanupHistory[k].imageUrl :
                                k \in DOMAIN CleanupHistory}
  /\ history' = <<>>
  /\ historyIndex' = -1
  /\ activeLayerId' = NoLayer
  /\ prompt' = ""
  /\ activeTab' = "edit"
  /\ activeTool' = "point"
  /\ maskImage' = FALSE
  /\ loadingMessage' = NoMsg
  /\ error' = NoMsg
  /\ editHotspot' = NoPoint
  /\ ops' = EmptyBag
  /\ svc' = NoCall
  /\ aiSuggestions' = NoSuggestions
  /\ isSuggestionsModalOpen' = FALSE
  /\ UNCHANGED <<nextUrl, lastId, calls, downloads>>

TeardownNext == ContextNext \/ unmount
\* the editor in use until it is torn down
SpecTeardown == InitFlatten /\ [][TeardownNext]_vars

(* ------------------------------ properties ---------------------------- *)
\* the steps the properties below speak about
DeleteLayerStep == \E id \in 1..lastId : handleDeleteLayer(id)
GenerateCompletes(op) == \E t \in 0..(lastId + 1) : generateResolves(op, t)
\* addImageToHistory runs
PushStep ==
  \/ DeleteLayerStep
  \/ \E op \in DOMAIN ops :
       GenerateCompletes(op) \/ editResolves(op) \/ cropImageLoaded(op, TRUE)
\* a call ends in failure: the service throws, rejects or answers without an
\* image, a layer raster fails to decode, or no canvas context is available
FailureStep ==
  \E op \in DOMAIN ops :
    \/ generateThrows(op)
    \/ serviceRejects(op)
    \/ flattenLayerError(op)
    \/ cropImageLoaded(op, FALSE)
    \/ upscaleRejects(op)
    \/ downloadImageLoaded(op, FALSE)
FailureMessages == {FailureMessage(kind) : kind \in Mutating \cup {"download"}}
MutatingInFlight == \E op \in DOMAIN ops : op.kind \in Mutating
\* a mutating operation starts: a call of a mutating kind is issued, or a
\* layer is deleted (which starts and completes in one step)
MutationStarts ==
  \/ DeleteLayerStep
  \/ /\ calls' = calls + 1
     /\ \E op \in DOMAIN ops' : op.kind \in Mutating /\ op.n = calls + 1

\* C1: whatever sequence of uploads, pushes, undo, redo, Reset, Upload New and
\* completions of earlier requests has run, historyIndex lies within
\* [-1, history.length - 1] and is -1 only when the history is empty.
PointerInRange ==
  /\ historyIndex \in (-1)..(Len(history) - 1)
  /\ historyIndex = -1 => history = <<>>
\* a request started earlier has completed and the pointer was moved back
\* below the tail afterwards
PointerInRangeWitness ==
  /\ calls > 0 /\ ops = EmptyBag
  /\ Len(history) >= 3 /\ historyIndex = 0

\* C2: a push applied when the pointer is p and the history is H yields
\* H[0..p] followed by the new entry and pointer p + 1, the last index; the
\* base-image URL of every entry after p is released and redo is unavailable.
PushAppendsAfterPointer ==
  [][PushStep =>
       /\ Len(history') = historyIndex + 2
       /\ SubSeq(history', 1, historyIndex + 1)
            = SubSeq(history, 1, historyIndex + 1)
       /\ historyIndex' = historyIndex + 1
       /\ \A k \in (historyIndex + 2)..Len(history) :
            history[k].imageUrl \in revoked'
       /\ ~canRedo']_vars

\* C3: the base-image URL of every entry that is in the history, from index 0
\* to the tail, has not been revoked.
NoLiveUrlRevoked ==
  \A k \in DOMAIN history : history[k].imageUrl \notin revoked

\* C4: no mutating operation (generate, remove, global edit, crop, delete
\* layer) starts while another one is between its start and its completion.
MutationsSerialized == [][MutationStarts => ~MutatingInFlight]_vars

\* the entries the request started from are still the first entries of the
\* history: since its start the pointer has moved or entries were added
StartedFrom(op) ==
  /\ Len(op.keep) <= Len(history)
  /\ SubSeq(history, 1, Len(op.keep)) = op.keep
\* C5: when a generate, remove or global-edit request completes after the
\* pointer was moved by undo, redo or reset, its entry is appended directly
\* after the entry at the pointer at that moment, and a generated layer is
\* added to (or replaced in) the layers of that entry.
CompletionAppliesToCurrent ==
  [][\A op \in DOMAIN ops :
       (/\ GenerateCompletes(op) \/ editResolves(op)
        /\ StartedFrom(op)) =>
         /\ history' = Append(SubSeq(history, 1, historyIndex + 1),
                              history'[Len(history')])
         /\ (op.kind = "generate") =>
              /\ currentState # <<>>
              /\ history'[Len(history')].imageUrl = currentState[1].imageUrl
              /\ \A k \in DOMAIN currentLayers :
                   \E j \in DOMAIN history'[Len(history')].layers :
                     history'[Len(history')].layers[j].id
                       = currentLayers[k].id]_vars

\* C6: an entry of the history keeps its base image and layer list, and the
\* entry at an index is removed or replaced only by a push applied while the
\* pointer is below that index, or when the whole history is cleared.
EntriesImmutable ==
  [][\A k \in DOMAIN history :
       (k \notin DOMAIN history' \/ history'[k] # history[k]) =>
         \/ historyIndex < k - 1 /\ PushStep
         \/ history' = <<>>]_vars

\* C7: a call that ends in failure (the service fails, is blocked or returns
\* no image, a raster fails to decode during flatten, the crop cannot be
\* drawn) pushes no entry: history and pointer are unchanged by it.
FailureKeepsHistory ==
  [][FailureStep => UNCHANGED <<history, historyIndex, revoked>>]_vars
\* a global edit has failed on a history that holds an earlier edit
FailureKeepsHistoryWitness ==
  /\ error = FailureMessage("global")
  /\ Len(history) >= 2 /\ ops = EmptyBag /\ calls = MaxCalls

\* C8: a call that ends in failure clears the busy flag and reports an error
\* naming the operation, also when flattening fails inside crop.
FailureReported ==
  [][FailureStep =>
       loadingMessage' = NoMsg /\ error' \in FailureMessages]_vars

\* C9: a generate request with no image, with an empty or whitespace-only
\* prompt, or with neither a hotspot nor a mask is rejected before any
\* mutation, whether or not a layer is selected: an error is shown, the busy
\* flag is not set, no call is made, history and pointer are unchanged.
InvalidGenerateInput ==
  \/ currentState = <<>>
  \/ Trim(prompt) = ""
  \/ editHotspot = NoPoint /\ ~maskImage
GenerateInputValidated ==
  [][handleGenerate /\ InvalidGenerateInput =>
       /\ error' # NoMsg
       /\ UNCHANGED <<loadingMessage, ops, calls, history,
                      historyIndex>>]_vars

\* C10: undo moves the pointer down by exactly 1 and only from above 0; redo
\* moves it up by exactly 1 and only from below the last index; neither
\* changes the history sequence or revokes a URL.
UndoRedoFrame ==
  [][/\ handleUndo =>
          /\ historyIndex > 0 /\ historyIndex' = historyIndex - 1
          /\ UNCHANGED <<history, revoked>>
     /\ handleRedo =>
          /\ historyIndex < Len(history) - 1
          /\ historyIndex' = historyIndex + 1
          /\ UNCHANGED <<history, revoked>>]_vars
\* the pointer stands strictly between entry 0 and the tail
UndoRedoFrameWitness ==
  /\ Len(history) >= 3 /\ historyIndex = 1 /\ revoked = {}

\* C11: undo followed by redo is the identity on the current entry: right
\* after an undo, redo is possible and leads back to the same pointer and the
\* same entry (same layer ids and rasters in the same order); symmetrically,
\* right after a redo, undo leads back.
UndoRedoIdentity ==
  [][/\ handleUndo =>
          /\ canRedo'
          /\ historyIndex' + 1 = historyIndex
          /\ StateAt(history', historyIndex' + 1) = currentState
     /\ handleRedo =>
          /\ canUndo'
          /\ historyIndex' - 1 = historyIndex
          /\ StateAt(history', historyIndex' - 1) = currentState]_vars
\* the pointer was moved back from an entry that holds a layer
UndoRedoIdentityWitness ==
  /\ historyIndex >= 0 /\ canRedo
  /\ Len(history[historyIndex + 2].layers) >= 1
\* C12: the reset / new-upload operation empties the store (pointer -1) and
\* releases the base-image URL of every entry that was in the history.
ResetReleasesAll ==
  [][handleUploadNew =>
       /\ history' = <<>> /\ historyIndex' = -1
       /\ \A k \in DOMAIN history : history[k].imageUrl \in revoked']_vars
\* C13: each raster is owned by exactly one entry: no two entries of the
\* history have the same base-image URL, generate-layer and delete-layer
\* entries included.
BaseUrlOwnedOnce ==
  \A j, k \in DOMAIN history :
    j # k => history[j].imageUrl # history[k].imageUrl
\* C14: a successful generate issued while a layer is selected pushes an
\* entry whose layer list has the same length and the same id at every
\* position as the list it was issued on, with only the selected layer's
\* raster and prompt replaced; issued with no layer selected, it pushes that
\* list with exactly one new layer appended at the end.
GenerateLayerList ==
  [][\A op \in DOMAIN ops : GenerateCompletes(op) =>
       LET old == CapLayers(op)
           new == LayersAt(history', historyIndex')
       IN IF op.layerId # NoLayer
          THEN /\ Len(new) = Len(old)
               /\ \A j \in DOMAIN old :
                    /\ new[j].id = old[j].id
                    /\ old[j].id # op.layerId => new[j] = old[j]
                    /\ old[j].id = op.layerId =>
                         /\ new[j].imageUrl = DataUrl(op.n)
                         /\ new[j].prompt = op.prompt
          ELSE /\ Len(new) = Len(old) + 1
               /\ SubSeq(new, 1, Len(old)) = old
               /\ new[Len(new)].imageUrl = DataUrl(op.n)
               /\ new[Len(new)].prompt = op.prompt
               /\ \A j \in DOMAIN old : old[j].id # new[Len(new)].id]_vars
\* a layer was appended, then replaced in place by a second generate
GenerateLayerListWitness ==
  \E k \in DOMAIN history :
    /\ k + 2 \in DOMAIN history
    /\ history[k].layers = <<>>
    /\ Len(history[k + 1].layers) = 1 /\ Len(history[k + 2].layers) = 1
    /\ history[k + 1].layers[1].id = history[k + 2].layers[1].id
    /\ history[k + 1].layers[1].imageUrl # history[k + 2].layers[1].imageUrl
\* C15: the entry pushed by a crop, by an object removal and by every global
\* edit has zero layers and a base image that no entry had before; so crop
\* applied twice in sequence yields two entries, each with zero layers.
FlatEntryStep(op) == editResolves(op) \/ cropImageLoaded(op, TRUE)
FlattenedEntryHasNoLayers ==
  [][\A op \in DOMAIN ops : FlatEntryStep(op) =>
       /\ historyIndex' + 1 \in DOMAIN history'
       /\ LayersAt(history', historyIndex') = <<>>
       /\ LET newUrl == history'[historyIndex' + 1].imageUrl
          IN /\ newUrl \notin revoked
             /\ \A k \in DOMAIN history : history[k].imageUrl # newUrl
             /\ \A k \in DOMAIN op.keep : op.keep[k].imageUrl # newUrl]_vars
\* an entry with a layer is followed by an entry with another base image
FlattenedEntryHasNoLayersWitness ==
  /\ historyIndex >= 1 /\ historyIndex + 1 = Len(history)
  /\ Len(history[historyIndex].layers) >= 1
  /\ history[historyIndex].imageUrl # history[historyIndex + 1].imageUrl
\* C16: deleting layer x from the current entry E pushes a new entry with
\* E's base image unchanged and E's layers without x in the same relative
\* order; E itself stays in the history, right before the new entry, so one
\* undo makes it current again.
DeleteLayerEntry ==
  [][\A x \in 1..lastId : handleDeleteLayer(x) =>
       LET E == history[historyIndex + 1]
           N == history'[historyIndex' + 1]
       IN /\ historyIndex' = historyIndex + 1
          /\ Len(history') = historyIndex' + 1
          /\ N.imageUrl = E.imageUrl
          /\ \E p \in DOMAIN E.layers :
               /\ E.layers[p].id = x
               /\ N.layers = SubSeq(E.layers, 1, p - 1)
                               \o SubSeq(E.layers, p + 1, Len(E.layers))
          /\ SubSeq(history', 1, historyIndex + 1)
               = SubSeq(history, 1, historyIndex + 1)
          /\ canUndo'
          /\ StateAt(history', historyIndex' - 1) = <<E>>]_vars
\* the second of two layers was deleted
DeleteLayerEntryWitness ==
  /\ historyIndex >= 1
  /\ Len(history[historyIndex].layers) = 2
  /\ history[historyIndex + 1].layers = <<history[historyIndex].layers[1]>>
  /\ history[historyIndex + 1].imageUrl = history[historyIndex].imageUrl
\* C17: uploading an image initializes the history to exactly one entry
\* holding that base image, which no entry had before, and an empty layer
\* list, with the pointer at 0, whatever the state before the upload.
UploadInitializesHistory ==
  [][handleImageUpload =>
       /\ Len(history') = 1 /\ historyIndex' = 0
       /\ history'[1].layers = <<>>
       /\ history'[1].imageUrl \notin revoked
       /\ \A op \in DOMAIN ops : \A k \in DOMAIN op.keep :
            op.keep[k].imageUrl # history'[1].imageUrl]_vars
\* a second image was uploaded while a call issued on the first one is
\* still in flight
UploadInitializesHistoryWitness ==
  /\ Len(history) = 1 /\ historyIndex = 0
  /\ \E op \in DOMAIN ops :
       CapState(op).imageUrl # history[1].imageUrl
\* what the canvas holds when the base and every layer of entry e have been
\* drawn in list order, bottom first
Composite(e) ==
  <<e.imageUrl>> \o [j \in 1..Len(e.layers) |-> e.layers[j].imageUrl]
\* the calls that have flattenImage behind them
PastFlatten(op) ==
  /\ op.kind \in {"remove", "global", "crop", "download"}
  /\ op.stage \in {"service", "load", "upscale"}
\* C18: flatten draws the base first and then every layer of the entry
\* exactly once in list order: at every moment the canvas holds the base
\* followed by the first layers of the list, each step draws the one next
\* layer over them, and flatten ends with all of them drawn.
FlattenDrawsInListOrder ==
  /\ [](\A op \in DOMAIN ops :
          /\ op.drawn = SubSeq(Composite(CapState(op)), 1, Len(op.drawn))
          /\ op.stage = "layers" =>
               Len(op.drawn) \in 1..Len(CapLayers(op))
          /\ PastFlatten(op) /\ op.drawn # <<>> =>
               op.drawn = Composite(CapState(op)))
  /\ [][\A op \in DOMAIN ops : flattenLayerLoaded(op) =>
          \E done \in DOMAIN ops' :
            /\ done.keep = op.keep
            /\ done.drawn
                 = Append(op.drawn, CapLayers(op)[Len(op.drawn)].imageUrl)]_vars
\* three layers have been drawn over the base, the first one first
FlattenDrawsInListOrderWitness ==
  \E op \in DOMAIN ops :
    /\ Len(op.drawn) = 4
    /\ op.drawn[2] = CapLayers(op)[1].imageUrl
    /\ op.drawn[4] = CapLayers(op)[3].imageUrl
\* C19: flatten of an entry with zero layers returns the entry's base image
\* itself: the call never waits for an image to decode, no canvas is made,
\* and what the caller goes on with is the base file.
ZeroLayerFlattenIsBase ==
  \A op \in DOMAIN ops :
    (/\ op.kind \in {"remove", "global", "crop", "download"}
     /\ CapLayers(op) = <<>>)
    => /\ op.stage \notin {"base", "layers"}
       /\ op.drawn = <<>>
\* a removal issued on an entry without layers is with the service, although
\* the history holds entries with layers
ZeroLayerFlattenIsBaseWitness ==
  /\ Len(history) >= 2
  /\ \E op \in DOMAIN ops :
       /\ op.kind = "remove" /\ op.stage = "service"
       /\ CapLayers(op) = <<>>
\* C20: if a layer raster fails to decode, flatten aborts as a whole: the
\* call ends there, with nothing pushed and nothing passed on, so no call
\* that has flatten behind it (removal, global edit, crop, download) ever
\* holds, sends or stores a composite with only some of the layers drawn.
FlattenAbortsAsAWhole ==
  /\ [][\A op \in DOMAIN ops : flattenLayerError(op) =>
          /\ ops' = Ended(op)
          /\ UNCHANGED <<history, historyIndex, revoked, nextUrl>>
          /\ op.kind # "crop" => error' = FailureMessage(op.kind)]_vars
  /\ [](\A op \in DOMAIN ops :
          PastFlatten(op) =>
            op.drawn \in {<<>>, Composite(CapState(op))})
\* a removal has drawn the base and one layer of three and waits for the
\* second layer to decode: the state in which a decode failure aborts it
FlattenAbortsAsAWholeWitness ==
  \E op \in DOMAIN ops :
    /\ op.kind = "remove" /\ op.stage = "layers"
    /\ Len(CapLayers(op)) = 3 /\ Len(op.drawn) = 2
    /\ ENABLED flattenLayerError(op)
\* C21: the mask is discarded on every context switch: a step that switches
\* to the point tool, an undo or a redo, and a step after which another
\* layer (or none) is the active one all leave maskImage null.
MaskDiscardedOnSwitch ==
  [][/\ (activeTool # "point" /\ activeTool' = "point") => ~maskImage'
     /\ (handleUndo \/ handleRedo) => ~maskImage'
     /\ activeLayer' # activeLayer => ~maskImage']_vars
\* a mask is painted over the active layer of an entry with two layers that
\* has an entry before it: each of the three switches can be made
MaskDiscardedOnSwitchWitness ==
  /\ maskImage /\ canUndo
  /\ activeLayer # <<>> /\ Len(currentLayers) >= 2
  /\ ENABLED setActiveTool("point")
\* C22: at teardown (unmount of the component) the base-image URL of every
\* entry that is in the history at that moment is released.
TeardownReleasesHistory ==
  [][unmount =>
       \A k \in DOMAIN history : history[k].imageUrl \in revoked']_vars
\* C23: generateEditedImage fails with an error, before contacting the
\* model, for every call whose options do not contain exactly one of hotspot
\* and maskImage (neither, or both).
ExactlyOneOfHotspotAndMask ==
  \A k \in DOMAIN svc :
    (/\ svc[k].fn = "generateEditedImage"
     /\ svc[k].options.hotspot = svc[k].options.maskImage
     /\ svc[k].out # <<>>)
    => svc[k].out[1].throws /\ ~svc[k].out[1].contacted
\* C24: enhancePrompt falls back to the original text on every failure: when
\* the API key is missing, the model call fails or the response cannot be
\* handled, the call returns the caller's original prompt instead of
\* failing, and the prompt field keeps a text.
EnhanceFallsBack ==
  [][enhanceSettles =>
       LET call == svc[1]
           enhanced == enhancePrompt(call.simplePrompt, call.env, call.reply)
       IN (~call.env.apiKey \/ call.reply.rejects \/ ~call.reply.hasText)
          => /\ ~enhanced.throws
             /\ enhanced.value = call.simplePrompt
             /\ prompt' = call.simplePrompt]_vars
ImageOrError ==
  \A k \in DOMAIN svc :
    (svc[k].fn \in ImageFunctions /\ svc[k].out # <<>>) =>
      LET out == svc[k].out[1]
          response == svc[k].reply
          hasImage == \E j \in DOMAIN response.parts :
                        response.parts[j] = "image"
      IN /\ out.throws \/ out.value = ImageDataUrl
         /\ out.throws => out.value # ""
         /\ (out.contacted /\ ~response.rejects) =>
              /\ response.blockReason => out.throws
              /\ ~hasImage => out.throws
              /\ (hasImage /\ ~response.blockReason) => ~out.throws
\* a blocked response that also holds an image part has been rejected
ImageOrErrorWitness ==
  /\ svc # NoCall /\ svc[1].out # <<>>
  /\ svc[1].fn = "upscaleImage"
  /\ svc[1].reply.blockReason
  /\ svc[1].reply.parts = <<"text", "image">>
  /\ svc[1].out[1] = Throws("Request was blocked.", TRUE)
\* C27: a click on an image displayed with a zero width or a zero height
\* fails explicitly: an error is reported, and the point computed from the
\* zero dimension is not stored.
ZeroDisplay(c) == c.clientWidth = 0 \/ c.clientHeight = 0
ZeroDisplayClickFails ==
  [][\A c \in Clicks :
       (ZeroDisplay(c) /\ handleBaseImageClick(c)) =>
         error' # NoMsg /\ editHotspot' # <<Original[c]>>]_vars

\* C28: a click at offset (ox, oy) on an image displayed at (cw, ch) > 0 of
\* natural size (nw, nh) stores (round(ox*nw/cw), round(oy*nh/ch)), from the
\* sizes of that click: the same fraction of the displayed axis gives the
\* same point whatever the displayed size, within [0, nw] x [0, nh].
Rounded(a, b) == (2 * a + b) \div (2 * b)
ClickMapsLinearly ==
  [][\A c \in Clicks :
       (~ZeroDisplay(c) /\ handleBaseImageClick(c)) =>
         editHotspot' =
           <<[x |-> Number(Rounded(c.offsetX * c.naturalWidth, c.clientWidth)),
              y |-> Number(Rounded(c.offsetY * c.naturalHeight,
                                   c.clientHeight))]>>]_vars

\* C29: an export that ends has either handed off one file made by flatten,
\* then upscale if requested, then the watermark if requested, then
\* encoding, in that order, or, a step having failed, has handed off no
\* file and reported an error.
ExpectedSteps(op) ==
  <<"flatten">> \o (IF op.upscale THEN <<"upscale">> ELSE <<>>)
                \o (IF op.addWatermark THEN <<"watermark">> ELSE <<>>)
                \o <<"encode">>
ExportInOrderOrError ==
  [][\A op \in DOMAIN ops :
       (op.kind = "download" /\ ops' = Ended(op)) =>
         \/ /\ Len(downloads') = Len(downloads) + 1
            /\ downloads'[Len(downloads')].steps = ExpectedSteps(op)
         \/ downloads' = downloads /\ error' # NoMsg]_vars

\* C30: while an asynchronous operation (generate, remove, global edit, crop,
\* download) is between its start and its completion the busy flag is set,
\* whatever other operation starts or finishes in the meantime.
BusyWhileInFlight == ops # EmptyBag => isLoading

\* C31: an empty history (as Upload New leaves it) stays empty, with the
\* pointer at -1, until the next image upload, also when an operation
\* started before Upload New completes afterwards.
EmptyUntilUpload ==
  [][(history = <<>> /\ ~handleImageUpload) =>
       history' = <<>> /\ historyIndex' = -1]_vars

\* C32: in every reachable state activeLayerId is null or the id of a layer
\* of the current history entry.
ActiveLayerIdValid ==
  \/ activeLayerId = NoLayer
  \/ \E k \in DOMAIN currentLayers : currentLayers[k].id = activeLayerId

\* C33: every step that changes which base image is current (crop, removal,
\* global edit, undo, redo, Reset, Upload New) leaves editHotspot null, so a
\* pending hotspot was chosen on the base image of the current entry.
HotspotOnCurrentBase ==
  [][currentImageUrl' # currentImageUrl => editHotspot' = NoPoint]_vars

OriginalKept ==
  [][(history # <<>> /\ history' # <<>> /\ ~handleImageUpload) =>
       history'[1] = history[1]]_vars
\* C36: Reset only moves the pointer: a Reset step sets the pointer to 0,
\* clears the active layer, the hotspot, the mask and the error, and leaves
\* every history entry in place and no URL released, so redo is possible
\* whenever there is a later entry; on an empty history no Reset step exists.
ResetOnlyMovesPointer ==
  [][handleReset =>
       /\ history # <<>>
       /\ historyIndex' = 0
       /\ activeLayerId' = NoLayer /\ editHotspot' = NoPoint
       /\ maskImage' = FALSE /\ error' = NoMsg
       /\ UNCHANGED <<history, revoked>>
       /\ Len(history) > 1 => canRedo']_vars
\* the pointer is back on the upload with two later entries still in place
ResetOnlyMovesPointerWitness ==
  /\ Len(history) >= 3 /\ historyIndex = 0 /\ canRedo
  /\ activeLayerId = NoLayer /\ editHotspot = NoPoint
  /\ ~maskImage /\ error = NoMsg
  /\ \A e \in DOMAIN history : history[e].imageUrl \notin revoked
\* the steps of a download: the confirm handler and every continuation of
\* the call it started
DownloadStep ==
  \/ \E options \in DownloadOptions : handleConfirmDownload(options)
  \/ \E op \in DOMAIN ops :
       /\ op.kind = "download"
       /\ \/ \E ctx \in BOOLEAN : flattenBaseLoaded(op, ctx)
          \/ flattenBaseNeverLoads(op)
          \/ flattenLayerLoaded(op)
          \/ flattenLayerError(op)
          \/ upscaleResolves(op)
          \/ upscaleRejects(op)
          \/ \E ctx \in BOOLEAN : downloadImageLoaded(op, ctx)
          \/ imageNeverLoads(op)
\* the steps of the two assistants: the request and its settling
AssistantStep ==
  \/ \E env \in Envs, reply \in EnhanceReplies :
       handleEnhancePrompt(env, reply)
  \/ enhanceSettles
  \/ \E env \in Envs, reply \in SuggestReplies :
       handleGetSuggestions(env, reply)
  \/ suggestionsSettle
\* C37: no step of a download, of suggestion fetching or of prompt
\* enhancement changes the history or the pointer, whether the call
\* succeeds or fails.
AssistantsLeaveHistory ==
  [][(DownloadStep \/ AssistantStep) =>
       UNCHANGED <<history, historyIndex>>]_vars
\* a file was handed off and a suggestion request has failed, on a history
\* whose pointer stands below the tail
AssistantsLeaveHistoryWitness ==
  /\ downloads # <<>>
  /\ error # NoMsg /\ isSuggestionsModalOpen
  /\ aiSuggestions = NoSuggestions
  /\ svc = NoCall
  /\ Len(history) >= 2 /\ canRedo
====
